---- MODULE Spec2Model ----
(***************************************************************************)
(* Model of the annotation review engine of qa_annotation_tool.py:         *)
(* the submission validator (submit_qa), the output aggregator             *)
(* (kept_pairs_to_output), the queue cursor (run_qa_tool) and the          *)
(* per-reviewer files written by export_data.                              *)
(*                                                                         *)
(* Python strings are sequences of one-character strings, so that strip(), *)
(* `in` and index() are computed and not assumed.                          *)
(***************************************************************************)
EXTENDS Integers, Sequences, FiniteSets, TLC

VARIABLES
    \* st.session_state of the one browser session
    st,
    \* the --insecure command line flag
    insecure,
    \* the reviewer's profile directory on disk
    files,
    \* the handler that ran last, and for submit_qa what it was given
    last,
    \* validator harness: a candidate and the errors submit_qa leaves for it
    cand, cand_errors, cand_done,
    \* aggregator harness: a Judgement list and its aggregation
    agg_pairs, agg_output,
    \* shuffler harness: a list of triples and the calls made on it, each with
    \* its username and the list it returned
    shuffle_input, shuffle_calls

sessionVars == <<st, insecure, files, last>>
validatorVars == <<cand, cand_errors, cand_done>>
aggregatorVars == <<agg_pairs, agg_output>>
shufflerVars == <<shuffle_input, shuffle_calls>>
vars == <<sessionVars, validatorVars, aggregatorVars, shufflerVars>>

-----------------------------------------------------------------------------
(* Bounds *)

\* longest Judgement list handed to the aggregator harness
MaxJudgements == 2
\* number of items of the generated dataset that are loaded
MaxItems == 2
\* the longest list of triples handed to shuffle_qa_data on its own
MaxTriples == 3

-----------------------------------------------------------------------------
(* Python str operations *)

Space == " "

\* Python None where a string is expected (no string of the model equals it)
None == <<"None">>

Min(a, b) == IF a < b THEN a ELSE b

\* str.strip(): drop leading and trailing whitespace
RECURSIVE LStrip(_)
LStrip(s) == IF s # <<>> /\ Head(s) = Space THEN LStrip(Tail(s)) ELSE s

RECURSIVE RStrip(_)
RStrip(s) == IF s # <<>> /\ s[Len(s)] = Space
             THEN RStrip(SubSeq(s, 1, Len(s) - 1)) ELSE s

Strip(s) == RStrip(LStrip(s))

\* the 0-based offsets at which a occurs in c
Occurrences(c, a) ==
    { i \in 0..(Len(c) - Len(a)) : SubSeq(c, i + 1, i + Len(a)) = a }

\* `a in c` for strings
Contains(c, a) == Occurrences(c, a) # {}

\* mutant: the last offset in place of the first
IndexOfLast(c, a) ==
    IF Occurrences(c, a) = {} THEN -1
    ELSE CHOOSE i \in Occurrences(c, a) : \A j \in Occurrences(c, a) : i >= j

\* c.index(a): the first offset, or -1 where Python raises ValueError
Index(c, a) ==
    IF Occurrences(c, a) = {} THEN -1
    ELSE CHOOSE i \in Occurrences(c, a) : \A j \in Occurrences(c, a) : i <= j

-----------------------------------------------------------------------------
(* The generated dataset *)

CtxA == <<"a", Space, "b">>
CtxB == <<"b", "a", "b">>
Q1 == <<"q">>
Q2 == <<"r">>

Item(c, q, a) == [Context |-> c, Question |-> q, Answer |-> a]

\* raw_data flattened context by context, question by question (load, 489-491).
\* The same question string occurs under both contexts, and one generated
\* answer carries trailing whitespace.
GeneratedData ==
    << Item(CtxA, Q1, <<"a">>),
       Item(CtxB, Q1, <<"b">>),
       Item(CtxB, Q2, <<"a", Space>>),
       Item(CtxB, <<"s">>, <<"b", "a">>) >>

\* mutant: a triple already met is left out of the result
shuffle_qa_data_distinct(username, qa_data) ==
    LET RECURSIVE Distinct(_, _)
        Distinct(i, acc) ==
            IF i > Len(qa_data) THEN acc
            ELSE Distinct(i + 1,
                          IF \E j \in 1..Len(acc) : acc[j] = qa_data[i]
                          THEN acc ELSE Append(acc, qa_data[i]))
    IN Distinct(1, <<>>)

\* shuffle_qa_data returns its input at its first statement (line 44); the
\* seeding, grouping and sampling of lines 46-69 are never reached
shuffle_qa_data(username, qa_data) == qa_data

-----------------------------------------------------------------------------
(* What the reviewer can put into the widgets for an item *)

\* question text area: untouched, padded, blank, blank after trimming, rewritten
UserQuestions(item) ==
    { item.Question, item.Question \o <<Space>>, <<>>, <<Space>>, <<"p">> }

\* answer text area: untouched, trimmed, padded, blank, another snippet,
\* wrong case/absent
UserAnswers(item) ==
    { item.Answer, Strip(item.Answer),
      <<Space>> \o item.Answer, item.Answer \o <<Space>>,
      <<>>, <<"b">>, <<"c">> }

\* a candidate judgement: the widget values submit_qa reads
Candidates(item) ==
    [ suitable : BOOLEAN,
      question_natural : BOOLEAN,
      answer_natural : BOOLEAN,
      answer_adequate : BOOLEAN,
      answer_correct : BOOLEAN,
      user_question : UserQuestions(item),
      user_answer : UserAnswers(item) ]

\* a snippet of the document other than the generated answer
OtherSnippet(item) == IF Strip(item.Answer) = <<"b">> THEN <<"a">> ELSE <<"b">>

Candidate(s, qn, an, ad, co, uq, ua) ==
    [ suitable |-> s, question_natural |-> qn, answer_natural |-> an,
      answer_adequate |-> ad, answer_correct |-> co,
      user_question |-> uq, user_answer |-> ua ]

\* The submissions a reviewer makes in the session model (the rules themselves
\* are applied to all of Candidates by the validator harness): accept as
\* generated; accept with padded text; correct the answer; rewrite question
\* and answer; a blank question with an answer that is not in the document;
\* precise but not adequate; unsuitable, with tidy and with faulty fields.
SessionCandidates(item) ==
    { Candidate(TRUE, TRUE, TRUE, TRUE, TRUE, item.Question, item.Answer),
      Candidate(TRUE, TRUE, TRUE, TRUE, FALSE,
                item.Question \o <<Space>>, <<Space>> \o item.Answer),
      Candidate(TRUE, TRUE, TRUE, TRUE, FALSE, item.Question, OtherSnippet(item)),
      Candidate(TRUE, FALSE, FALSE, FALSE, FALSE, <<"p">>, OtherSnippet(item)),
      Candidate(TRUE, FALSE, TRUE, TRUE, TRUE, <<Space>>, <<"c">>),
      Candidate(TRUE, TRUE, TRUE, FALSE, TRUE, item.Question, item.Answer),
      Candidate(FALSE, TRUE, TRUE, TRUE, TRUE, item.Question, item.Answer),
      Candidate(FALSE, TRUE, FALSE, FALSE, TRUE, <<Space>>, <<"c">>) }

-----------------------------------------------------------------------------
(* submit_qa: the validation rules (lines 937-980) *)

Msg(m, arg) == [msg |-> m, arg |-> arg]

BlankQuestion == Msg("The question cannot be blank.", <<>>)
BlankAnswer == Msg("The answer cannot be blank,", <<>>)
ModifiedNaturalQuestion ==
    Msg("The question is marked as reading naturally, but has also been modified.", <<>>)
UnmodifiedUnnaturalQuestion ==
    Msg("The question is marked as not reading naturally, but it has not been modified.", <<>>)
NotInDocument(a) == Msg("The answer does not appear in the document", a)
PreciseNotAdequate ==
    Msg("Any precise-and-correct answer should also be adequate", <<>>)
ModifiedPerfectAnswer ==
    Msg("The answer is marked as precise, correct and reading naturally, but has been modified.", <<>>)
UnmodifiedUnnaturalAnswer ==
    Msg("The answer is marked as not reading naturally, but has not been modified.", <<>>)
UnmodifiedIncorrectAnswer ==
    Msg("The answer is marked as incorrect, but has not been modified.", <<>>)

If(b, m) == IF b THEN <<m>> ELSE <<>>

submitted_question(c) == Strip(c.user_question)
submitted_answer(c) == Strip(c.user_answer)
\* mutant: the question is compared as typed, whitespace included
question_modified_raw(item, c) == c.user_question # item.Question

question_modified(item, c) == submitted_question(c) # Strip(item.Question)
answer_modified(item, c) == submitted_answer(c) # Strip(item.Answer)

\* mutant: the blank test reads the raw text, not the trimmed one
QuestionErrorsUntrimmed(item, c) ==
    If(Len(c.user_question) = 0, BlankQuestion)
    \o (IF question_modified(item, c) /\ c.question_natural
        THEN <<ModifiedNaturalQuestion>>
        ELSE IF ~question_modified(item, c) /\ ~c.question_natural
        THEN <<UnmodifiedUnnaturalQuestion>>
        ELSE <<>>)

\* mutant: the elif of line 957 is missing
QuestionErrorsNoElif(item, c) ==
    If(Len(submitted_question(c)) = 0, BlankQuestion)
    \o If(question_modified(item, c) /\ c.question_natural, ModifiedNaturalQuestion)

\* errors['question'] after the rules ran
QuestionErrors(item, c) ==
    If(Len(submitted_question(c)) = 0, BlankQuestion)
    \o (IF question_modified(item, c) /\ c.question_natural
        THEN <<ModifiedNaturalQuestion>>
        ELSE IF ~question_modified(item, c) /\ ~c.question_natural
        THEN <<UnmodifiedUnnaturalQuestion>>
        ELSE <<>>)

\* mutant: the document test is made only for an answer marked unnatural
AnswerErrorsUnnaturalOnly(item, c) ==
    If(Len(submitted_answer(c)) = 0, BlankAnswer)
    \o If(~c.answer_natural /\ ~Contains(item.Context, submitted_answer(c)),
          NotInDocument(submitted_answer(c)))
    \o If(c.answer_correct /\ ~c.answer_adequate, PreciseNotAdequate)
    \o (IF answer_modified(item, c)
        THEN If(c.answer_correct /\ c.answer_natural, ModifiedPerfectAnswer)
        ELSE If(~c.answer_natural, UnmodifiedUnnaturalAnswer)
             \o If(~c.answer_correct /\ ~c.answer_adequate, UnmodifiedIncorrectAnswer))

\* mutant: an unedited answer is called incorrect as soon as it is not adequate
AnswerErrorsAdequacyOnly(item, c) ==
    If(Len(submitted_answer(c)) = 0, BlankAnswer)
    \o If(~Contains(item.Context, submitted_answer(c)),
          NotInDocument(submitted_answer(c)))
    \o If(c.answer_correct /\ ~c.answer_adequate, PreciseNotAdequate)
    \o (IF answer_modified(item, c)
        THEN If(c.answer_correct /\ c.answer_natural, ModifiedPerfectAnswer)
        ELSE If(~c.answer_natural, UnmodifiedUnnaturalAnswer)
             \o If(~c.answer_adequate, UnmodifiedIncorrectAnswer))

\* mutant: the rules stop at the first violation of the answer
AnswerErrorsFirstOnly(item, c) ==
    LET all ==
          If(Len(submitted_answer(c)) = 0, BlankAnswer)
          \o If(~Contains(item.Context, submitted_answer(c)),
                NotInDocument(submitted_answer(c)))
          \o If(c.answer_correct /\ ~c.answer_adequate, PreciseNotAdequate)
          \o (IF answer_modified(item, c)
              THEN If(c.answer_correct /\ c.answer_natural, ModifiedPerfectAnswer)
              ELSE If(~c.answer_natural, UnmodifiedUnnaturalAnswer)
                   \o If(~c.answer_correct /\ ~c.answer_adequate,
                         UnmodifiedIncorrectAnswer))
    IN IF all = <<>> THEN <<>> ELSE <<Head(all)>>

\* mutant: for an unedited answer the correctness test is the `else` of the
\* naturalness test
AnswerErrorsElif(item, c) ==
    If(Len(submitted_answer(c)) = 0, BlankAnswer)
    \o If(~Contains(item.Context, submitted_answer(c)),
          NotInDocument(submitted_answer(c)))
    \o If(c.answer_correct /\ ~c.answer_adequate, PreciseNotAdequate)
    \o (IF answer_modified(item, c)
        THEN If(c.answer_correct /\ c.answer_natural, ModifiedPerfectAnswer)
        ELSE IF ~c.answer_natural THEN <<UnmodifiedUnnaturalAnswer>>
        ELSE If(~c.answer_correct /\ ~c.answer_adequate, UnmodifiedIncorrectAnswer))

\* errors['answer'] after the rules ran
AnswerErrors(item, c) ==
    If(Len(submitted_answer(c)) = 0, BlankAnswer)
    \o If(~Contains(item.Context, submitted_answer(c)),
          NotInDocument(submitted_answer(c)))
    \o If(c.answer_correct /\ ~c.answer_adequate, PreciseNotAdequate)
    \o (IF answer_modified(item, c)
        THEN If(c.answer_correct /\ c.answer_natural, ModifiedPerfectAnswer)
        ELSE If(~c.answer_natural, UnmodifiedUnnaturalAnswer)
             \o If(~c.answer_correct /\ ~c.answer_adequate, UnmodifiedIncorrectAnswer))

NoErrors == [question |-> <<>>, answer |-> <<>>]

\* st.session_state['errors'] when submit_qa returns (lines 924-925, 931-980):
\* the unsuitable branch runs no rule
SubmitErrors(item, c) ==
    IF ~c.suitable THEN NoErrors
    ELSE [question |-> QuestionErrors(item, c), answer |-> AnswerErrors(item, c)]

\* mutant: only the question's error list is looked at
AcceptedByQuestionAlone(errs) == Len(errs.question) = 0

\* line 982
Accepted(errs) == Len(errs.question) = 0 /\ Len(errs.answer) = 0

\* save_qa_pair's record (lines 908-918): the raw widget text is stored
Judgement(item, c) ==
    [ Context |-> item.Context,
      Question |-> item.Question,
      Answer |-> item.Answer,
      QuestionNaturalness |-> c.question_natural,
      AnswerNaturalness |-> c.answer_natural,
      AnswerAdequacy |-> c.answer_adequate,
      AnswerCorrectness |-> c.answer_correct,
      UserQuery |-> c.user_question,
      UserAnswer |-> c.user_answer ]

-----------------------------------------------------------------------------
(* kept_pairs_to_output (lines 356-436) *)

\* A Python dict whose order is written out is a sequence of entries in
\* insertion order: context_to_question_answers is a sequence of
\* [context, qas], and qas a sequence of [question, answers].

Keys(entries, field) == { entries[i][field] : i \in 1..Len(entries) }

Pos(entries, field, key) == CHOOSE i \in 1..Len(entries) : entries[i][field] = key

\* lines 382-383
EnsureContext(ctqa, context) ==
    IF context \in Keys(ctqa, "context") THEN ctqa
    ELSE Append(ctqa, [context |-> context, qas |-> <<>>])

\* lines 402-403
EnsureQuestion(qas, q) ==
    IF q \in Keys(qas, "question") THEN qas
    ELSE Append(qas, [question |-> q, answers |-> <<>>])

\* mutant: a ValueError discards what the context had collected so far
AppendAnswerAborting(qas, context, q, a) ==
    IF Index(context, a) = -1 THEN <<>>
    ELSE LET i == Pos(qas, "question", q)
         IN [qas EXCEPT ![i].answers =
                Append(@, [text |-> a, answer_start |-> Index(context, a)])]

\* lines 405-410: the append is skipped when index() raises ValueError
AppendAnswer(qas, context, q, a) ==
    IF Index(context, a) = -1 THEN qas
    ELSE LET i == Pos(qas, "question", q)
         IN [qas EXCEPT ![i].answers =
                Append(@, [text |-> a, answer_start |-> Index(context, a)])]

\* one iteration of the loop at 401-410
AddPair(ctqa, context, pair) ==
    LET i == Pos(ctqa, "context", context)
    IN [ctqa EXCEPT ![i].qas =
            AppendAnswer(EnsureQuestion(@, pair[1]), context, pair[1], pair[2])]

RECURSIVE AddPairs(_, _, _)
AddPairs(ctqa, context, pairs) ==
    IF pairs = <<>> THEN ctqa
    ELSE AddPairs(AddPair(ctqa, context, Head(pairs)), context, Tail(pairs))

\* mutant: a correct answer that is not adequate does not keep the original
OriginalKeptIfAdequate(kp) ==
    kp.QuestionNaturalness /\ kp.AnswerNaturalness /\ kp.AnswerAdequacy

\* line 387-389
OriginalKept(kp) ==
    kp.QuestionNaturalness /\ kp.AnswerNaturalness
    /\ (kp.AnswerAdequacy \/ kp.AnswerCorrectness)

\* lines 385-390
pairs_to_add(kp) ==
    <<  <<kp.UserQuery, kp.UserAnswer>>  >>
    \o (IF OriginalKept(kp) THEN << <<kp.Question, kp.Answer>> >> ELSE <<>>)

\* lines 391-396
UnnaturalOf(kp) ==
    IF OriginalKept(kp) THEN <<>>
    ELSE If(~kp.QuestionNaturalness, kp.Question)
         \o If(~kp.AnswerNaturalness, kp.Answer)

\* lines 391, 398-399
IncorrectOf(kp) ==
    IF OriginalKept(kp) THEN <<>>
    ELSE If(~kp.AnswerCorrectness /\ ~kp.AnswerAdequacy, <<kp.Question, kp.Answer>>)

\* the loop at 374-410, first n Judgements
RECURSIVE Collect(_, _)
Collect(pairs, n) ==
    IF n = 0 THEN [ctqa |-> <<>>, unnatural |-> <<>>, incorrect |-> <<>>]
    ELSE LET acc == Collect(pairs, n - 1)
             kp == pairs[n]
         IN [ctqa |-> AddPairs(EnsureContext(acc.ctqa, kp.Context),
                               kp.Context, pairs_to_add(kp)),
             unnatural |-> acc.unnatural \o UnnaturalOf(kp),
             incorrect |-> acc.incorrect \o IncorrectOf(kp)]

\* lines 412-434: squad['data'][0]['paragraphs']; the uuid4 `id` of a question
\* entry is fresh on every call and is left out
Paragraphs(ctqa) ==
    [ i \in 1..Len(ctqa) |->
        [ context |-> ctqa[i].context,
          qas |-> [ j \in 1..Len(ctqa[i].qas) |->
                      [ question |-> ctqa[i].qas[j].question,
                        answers |-> ctqa[i].qas[j].answers,
                        is_impossible |-> FALSE ] ] ] ]

kept_pairs_to_output(pairs) ==
    LET acc == Collect(pairs, Len(pairs))
    IN [squad |-> Paragraphs(acc.ctqa),
        unnatural |-> acc.unnatural,
        incorrect |-> acc.incorrect]

-----------------------------------------------------------------------------
(* Session state and files before anything ran *)

\* the items load_user_profile_and_dataset puts in the queue
Dataset == SubSeq(GeneratedData, 1, Min(MaxItems, Len(GeneratedData)))

EmptyDict == [k \in {} |-> <<>>]

\* completed_questions = None (no question of the model equals None)
NotLoaded == {None}

EmptyTimes == [examples |-> EmptyDict, questions |-> EmptyDict]

FileNames == {"profile.json", "profile.squad", "unnatural_texts.json",
              "unsuitable_questions.json", "incorrect.json", "times.json",
              "notes.json", "complete"}

\* an empty profile directory; `exists` holds the names of the files in it
NoFiles ==
    [ exists |-> {},
      profile |-> <<>>,
      squad |-> <<>>,
      unnatural |-> <<>>,
      unsuitable |-> EmptyDict,
      incorrect |-> <<>>,
      times |-> EmptyTimes,
      notes |-> EmptyDict ]

\* a fresh browser session: a key missing from st.session_state is given the
\* value its first reader treats it as
FreshSession ==
    [ password_given |-> FALSE,
      user |-> "None",
      examples_finished |-> FALSE,
      example_index |-> 0,
      completed_questions |-> NotLoaded,
      index_input |-> 0,
      data |-> <<>>,
      kept_pairs |-> <<>>,
      unsuitable_questions |-> EmptyDict,
      notes |-> EmptyDict,
      times |-> EmptyTimes,
      errors |-> NoErrors ]

\* `last` names the handler and, for submit_qa, what the reviewer gave it:
\* the suitability choice, whether the rules of lines 948-980 find fault with
\* the candidate, the two explanation inputs and the elapsed time
Handler(kind) ==
    [ kind |-> kind, suitable |-> TRUE, faulty |-> FALSE,
      question_note |-> <<>>, answer_note |-> <<>>, elapsed |-> 0 ]

NoSubmission == Handler("start")

SessionInit ==
    /\ st = FreshSession
    /\ files = NoFiles
    /\ last = NoSubmission

NoCandidate ==
    [ item |-> GeneratedData[1],
      c |-> [ suitable |-> TRUE, question_natural |-> TRUE,
              answer_natural |-> TRUE, answer_adequate |-> TRUE,
              answer_correct |-> TRUE,
              user_question |-> GeneratedData[1].Question,
              user_answer |-> GeneratedData[1].Answer ] ]

ValidatorIdle == cand = NoCandidate /\ cand_errors = NoErrors /\ cand_done = FALSE
AggregatorIdle == agg_pairs = <<>> /\ agg_output = kept_pairs_to_output(<<>>)
ShufflerIdle == shuffle_input = <<>> /\ shuffle_calls = <<>>

-----------------------------------------------------------------------------
(* Validator harness: submit_qa's rules applied to every candidate *)

ValidatorInit ==
    /\ SessionInit /\ insecure = TRUE /\ AggregatorIdle /\ ShufflerIdle
    /\ \E i \in 1..Len(Dataset) :
          \E c \in Candidates(Dataset[i]) : cand = [item |-> Dataset[i], c |-> c]
    /\ cand_errors = NoErrors
    /\ cand_done = FALSE

Validate ==
    /\ ~cand_done
    /\ cand_errors' = SubmitErrors(cand.item, cand.c)
    /\ cand_done' = TRUE
    /\ UNCHANGED <<cand, sessionVars, aggregatorVars, shufflerVars>>

ValidatorNext == Validate

ValidatorSpec == ValidatorInit /\ [][ValidatorNext]_vars

-----------------------------------------------------------------------------
(* Aggregator harness: kept_pairs_to_output applied to Judgement lists that  *)
(* need not have passed validation                                           *)

AnyUserPairs(item) ==
    { <<item.Question, item.Answer>>,
      <<item.Question \o <<Space>>, <<"c">> >>,
      << <<"p">>, <<"b">> >> }

JudgementsOf(item) ==
    { [ Context |-> item.Context,
        Question |-> item.Question,
        Answer |-> item.Answer,
        QuestionNaturalness |-> qn,
        AnswerNaturalness |-> an,
        AnswerAdequacy |-> ad,
        AnswerCorrectness |-> co,
        UserQuery |-> up[1],
        UserAnswer |-> up[2] ] :
        qn \in BOOLEAN, an \in BOOLEAN, ad \in BOOLEAN, co \in BOOLEAN,
        up \in AnyUserPairs(item) }

AnyJudgements ==
    UNION { JudgementsOf(Dataset[i]) : i \in 1..Min(2, Len(Dataset)) }

AggregatorInit ==
    /\ SessionInit /\ insecure = TRUE /\ ValidatorIdle
    /\ AggregatorIdle /\ ShufflerIdle

Aggregate ==
    /\ last.kind = "start"
    /\ Len(agg_pairs) < MaxJudgements
    /\ \E kp \in AnyJudgements :
          /\ agg_pairs' = Append(agg_pairs, kp)
          /\ agg_output' = kept_pairs_to_output(agg_pairs')
    /\ UNCHANGED <<sessionVars, validatorVars, shufflerVars>>

\* mutant: unnatural and incorrect outlive the call, as module-level lists would
ReaggregateAccumulating ==
    /\ last.kind = "start"
    /\ agg_pairs # <<>>
    /\ agg_output' =
          [ squad |-> kept_pairs_to_output(agg_pairs).squad,
            unnatural |-> agg_output.unnatural
                              \o kept_pairs_to_output(agg_pairs).unnatural,
            incorrect |-> agg_output.incorrect
                              \o kept_pairs_to_output(agg_pairs).incorrect ]
    /\ last' = Handler("kept_pairs_to_output")
    /\ UNCHANGED <<agg_pairs, st, insecure, files, validatorVars, shufflerVars>>

\* kept_pairs_to_output is called once more on the list it was last called on
\* (its three accumulators are locals, lines 370-372)
Reaggregate ==
    /\ last.kind = "start"
    /\ agg_pairs # <<>>
    /\ agg_output' = kept_pairs_to_output(agg_pairs)
    /\ last' = Handler("kept_pairs_to_output")
    /\ UNCHANGED <<agg_pairs, st, insecure, files, validatorVars, shufflerVars>>

AggregatorNext == Aggregate \/ Reaggregate

AggregatorSpec == AggregatorInit /\ [][AggregatorNext]_vars

-----------------------------------------------------------------------------
(* Profile harness: the Judgement lists that accepted submissions build up,  *)
(* each aggregated as export_data does (line 843)                            *)

\* the place in the queue of the item a Judgement was made on
QueueIndex(kp) ==
    CHOOSE i \in 1..Len(GeneratedData) :
        /\ GeneratedData[i].Context = kp.Context
        /\ GeneratedData[i].Question = kp.Question

ProfileInit ==
    /\ SessionInit /\ insecure = TRUE /\ ValidatorIdle
    /\ AggregatorIdle /\ ShufflerIdle

\* an item further down the queue, not skipped by line 675, is submitted with
\* a candidate the rules accept (line 982); save_qa_pair appends its Judgement
\* and export_data aggregates the list
AcceptSubmission ==
    /\ Len(agg_pairs) < MaxJudgements
    /\ \E i \in 1..Len(GeneratedData) :
          \E c \in Candidates(GeneratedData[i]) :
             /\ c.suitable
             /\ Accepted(SubmitErrors(GeneratedData[i], c))
             /\ \A k \in 1..Len(agg_pairs) :
                   /\ QueueIndex(agg_pairs[k]) < i
                   /\ agg_pairs[k].Question # GeneratedData[i].Question
             /\ agg_pairs' = Append(agg_pairs, Judgement(GeneratedData[i], c))
             /\ agg_output' = kept_pairs_to_output(agg_pairs')
    /\ UNCHANGED <<sessionVars, validatorVars, shufflerVars>>

ProfileNext == AcceptSubmission

ProfileSpec == ProfileInit /\ [][ProfileNext]_vars

-----------------------------------------------------------------------------
(* Python dicts and their JSON files *)

Put(d, k, v) == [x \in (DOMAIN d) \cup {k} |-> IF x = k THEN v ELSE d[x]]

\* keys of the times dicts: ints while in memory, strings once read from JSON
IntKey(n) == [int |-> TRUE, n |-> n]
StrKey(n) == [int |-> FALSE, n |-> n]

\* json.dump then json.load of a dict keyed by ints and strings: every key
\* becomes a string; where both 0 and "0" are present the int key was inserted
\* later (string keys only come from a load) and its value is the one read back
JsonKeys(d) ==
    [ k \in { StrKey(x.n) : x \in DOMAIN d } |->
        IF IntKey(k.n) \in DOMAIN d THEN d[IntKey(k.n)] ELSE d[k] ]

JsonTimes(t) == [examples |-> JsonKeys(t.examples), questions |-> JsonKeys(t.questions)]

-----------------------------------------------------------------------------
(* load_user_profile_and_dataset (lines 465-518) *)

\* mutant: profile.json is not read back
load_without_profile(s, f) ==
    [ s EXCEPT
        !.index_input = 0,
        !.example_index = 0,
        !.data = shuffle_qa_data(s.user, Dataset),
        !.kept_pairs = <<>>,
        !.completed_questions = {},
        !.unsuitable_questions =
            IF "unsuitable_questions.json" \in f.exists THEN f.unsuitable ELSE EmptyDict,
        !.times = IF "times.json" \in f.exists THEN f.times ELSE EmptyTimes,
        !.notes = IF "notes.json" \in f.exists THEN f.notes ELSE EmptyDict,
        !.errors = NoErrors ]

\* mutant: the Unsuitable record is not read back
load_without_unsuitable(s, f) ==
    [ s EXCEPT
        !.index_input = 0,
        !.example_index = 0,
        !.data = shuffle_qa_data(s.user, Dataset),
        !.kept_pairs = f.profile,
        !.completed_questions = { f.profile[i].Question : i \in 1..Len(f.profile) },
        !.unsuitable_questions = EmptyDict,
        !.times = IF "times.json" \in f.exists THEN f.times ELSE EmptyTimes,
        !.notes = IF "notes.json" \in f.exists THEN f.notes ELSE EmptyDict,
        !.errors = NoErrors ]

load_user_profile_and_dataset(s, f) ==
    [ s EXCEPT
        !.index_input = 0,
        !.example_index = 0,
        !.data = shuffle_qa_data(s.user, Dataset),
        !.kept_pairs = f.profile,
        !.completed_questions = { f.profile[i].Question : i \in 1..Len(f.profile) },
        !.unsuitable_questions =
            IF "unsuitable_questions.json" \in f.exists THEN f.unsuitable ELSE EmptyDict,
        !.times = IF "times.json" \in f.exists THEN f.times ELSE EmptyTimes,
        !.notes = IF "notes.json" \in f.exists THEN f.notes ELSE EmptyDict,
        !.errors = NoErrors ]

\* lines 667-668 and 1006-1007
LoadIfNeeded(w) ==
    IF w.st.completed_questions = NotLoaded
    THEN [w EXCEPT !.st = load_user_profile_and_dataset(w.st, w.files)]
    ELSE w

-----------------------------------------------------------------------------
(* run_qa_tool: the queue cursor (lines 671-703) *)

Range(seq) == { seq[i] : i \in 1..Len(seq) }

InSeq(x, seq) == \E i \in 1..Len(seq) : seq[i] = x

get_current_data(s) == s.data[s.index_input + 1]

\* mutant: completion is looked up by (context, question)
qa_pair_annotated_by_item(s) ==
    \E i \in 1..Len(s.kept_pairs) :
        /\ s.kept_pairs[i].Context = get_current_data(s).Context
        /\ s.kept_pairs[i].Question = get_current_data(s).Question

\* mutant: the completed-question set is not consulted
qa_pair_annotated_never(s) == FALSE

\* line 675
qa_pair_annotated(s) == get_current_data(s).Question \in s.completed_questions

\* mutant: the Unsuitable record is not consulted
qa_pair_unsuitable_never(s) == FALSE

\* mutant: the question is looked up under every context of the record
qa_pair_unsuitable_any_context(s) ==
    \E c \in DOMAIN s.unsuitable_questions :
        InSeq(get_current_data(s).Question, s.unsuitable_questions[c])

\* line 676
qa_pair_unsuitable(s) ==
    /\ get_current_data(s).Context \in DOMAIN s.unsuitable_questions
    /\ InSeq(get_current_data(s).Question,
             s.unsuitable_questions[get_current_data(s).Context])

\* mutant: an `if` in place of the `while`: one resolved item is skipped
AdvanceCursorOnce(s) ==
    IF s.index_input < Len(s.data) /\ (qa_pair_annotated(s) \/ qa_pair_unsuitable(s))
    THEN [s EXCEPT !.index_input = @ + 1]
    ELSE s

\* mutant: the loop tests the completed-question set alone
RECURSIVE AdvanceCursorAnnotatedOnly(_)
AdvanceCursorAnnotatedOnly(s) ==
    IF s.index_input < Len(s.data) /\ qa_pair_annotated(s)
    THEN AdvanceCursorAnnotatedOnly([s EXCEPT !.index_input = @ + 1])
    ELSE s

\* the while loop at 672-684
RECURSIVE AdvanceCursor(_)
AdvanceCursor(s) ==
    IF s.index_input < Len(s.data) /\ (qa_pair_annotated(s) \/ qa_pair_unsuitable(s))
    THEN AdvanceCursor([s EXCEPT !.index_input = @ + 1])
    ELSE s

\* one run of run_qa_tool up to the widgets: load, skip, completion marker
run_qa_tool(w) ==
    LET w1 == LoadIfNeeded(w)
        s2 == AdvanceCursor(w1.st)
    IN [ st |-> s2,
         files |-> IF s2.index_input = Len(s2.data)
                   THEN [w1.files EXCEPT !.exists = @ \cup {"complete"}]
                   ELSE w1.files ]

\* one run of run_calibration up to the widgets (lines 1004-1008)
run_calibration(w) == LoadIfNeeded(w)

\* one run of the script (lines 1165-1175)
main(w) ==
    IF ~insecure /\ ~w.st.password_given THEN w
    ELSE IF w.st.user = "None" THEN w
    ELSE IF ~w.st.examples_finished THEN run_calibration(w)
    ELSE IF "profile.json" \notin w.files.exists THEN w
    ELSE run_qa_tool(w)

-----------------------------------------------------------------------------
(* export_data (lines 842-859) *)

\* mutant: the three aggregates are written before the Judgement list
ExportOrderAggregatesFirst ==
    << "profile.squad", "unnatural_texts.json", "incorrect.json", "profile.json",
       "unsuitable_questions.json", "times.json", "notes.json" >>

\* output_data, in the order the files are written
ExportOrder ==
    << "profile.json", "profile.squad", "unnatural_texts.json",
       "unsuitable_questions.json", "incorrect.json", "times.json", "notes.json" >>

\* the directory after the first k files of output_data were written
export_data_upto(s, f, k) ==
    LET out == kept_pairs_to_output(s.kept_pairs)
        written == { ExportOrder[i] : i \in 1..k }
    IN [ exists |-> f.exists \cup written,
         profile |-> IF "profile.json" \in written THEN s.kept_pairs ELSE f.profile,
         squad |-> IF "profile.squad" \in written THEN out.squad ELSE f.squad,
         unnatural |-> IF "unnatural_texts.json" \in written
                       THEN out.unnatural ELSE f.unnatural,
         unsuitable |-> IF "unsuitable_questions.json" \in written
                        THEN s.unsuitable_questions ELSE f.unsuitable,
         incorrect |-> IF "incorrect.json" \in written
                       THEN out.incorrect ELSE f.incorrect,
         times |-> IF "times.json" \in written THEN JsonTimes(s.times) ELSE f.times,
         notes |-> IF "notes.json" \in written THEN s.notes ELSE f.notes ]

export_data(s, f) == export_data_upto(s, f, Len(ExportOrder))

-----------------------------------------------------------------------------
(* add_notes, save_qa_pair, submit_qa (lines 863-992) *)

\* the answer explanation widget is not in st.session_state
NoKey == <<"no key">>

NoteOrNone(note) == IF Len(note) > 0 THEN note ELSE None

\* lines 875-880
NoteEntry(answer, question_note, answer_note) ==
    [ answer |-> [text |-> answer, note |-> NoteOrNone(answer_note)],
      note |-> NoteOrNone(question_note) ]

\* lines 864-869
StrippedQuestionNote(q_in) == Strip(q_in)
StrippedAnswerNote(a_in) == IF a_in = NoKey THEN <<>> ELSE Strip(a_in)

add_notes(ns, item, q_in, a_in) ==
    LET question_note == StrippedQuestionNote(q_in)
        answer_note == StrippedAnswerNote(a_in)
    IN IF Len(question_note) > 0 \/ Len(answer_note) > 0
       THEN Put(ns, item.Context,
                Put(IF item.Context \in DOMAIN ns THEN ns[item.Context] ELSE EmptyDict,
                    item.Question,
                    NoteEntry(item.Answer, question_note, answer_note)))
       ELSE ns

\* lines 908-920
save_qa_pair(s, item, c) ==
    [ s EXCEPT !.kept_pairs = Append(@, Judgement(item, c)),
               !.completed_questions = @ \cup {item.Question} ]

\* mutant: the question is not appended to the Unsuitable record
mark_unsuitable_unrecorded(s, item) == s

\* line 932, on a defaultdict(list)
mark_unsuitable(s, item) ==
    [ s EXCEPT !.unsuitable_questions =
        Put(@, item.Context,
            Append(IF item.Context \in DOMAIN @ THEN @[item.Context] ELSE <<>>,
                   item.Question)) ]

\* lines 924-929
BeginSubmit(s, item, q_in, a_in, d) ==
    [ s EXCEPT !.errors = NoErrors,
               !.times.questions = Put(@, IntKey(s.index_input), d),
               !.notes = add_notes(@, item, q_in, a_in) ]

\* mutant: the rules run before the suitability choice is looked at
submit_qa_rules_first(w, c, q_in, a_in, d, k) ==
    LET item == get_current_data(w.st)
        s1 == BeginSubmit(w.st, item, q_in, a_in, d)
        s2 == [s1 EXCEPT !.errors = SubmitErrors(item, [c EXCEPT !.suitable = TRUE])]
    IN IF ~Accepted(s2.errors) THEN [st |-> s2, files |-> w.files]
       ELSE IF ~c.suitable
       THEN LET s3 == mark_unsuitable(s2, item)
            IN [st |-> s3, files |-> export_data_upto(s3, w.files, k)]
       ELSE LET s3 == save_qa_pair(s2, item, c)
            IN [st |-> s3, files |-> export_data_upto(s3, w.files, k)]

\* mutant: the unsuitable branch does not call export_data
submit_qa_unsuitable_unsaved(w, c, q_in, a_in, d, k) ==
    LET item == get_current_data(w.st)
        s1 == BeginSubmit(w.st, item, q_in, a_in, d)
    IN IF ~c.suitable
       THEN [st |-> mark_unsuitable(s1, item), files |-> w.files]
       ELSE LET s2 == [s1 EXCEPT !.errors = SubmitErrors(item, c)]
            IN IF Accepted(s2.errors)
               THEN LET s3 == save_qa_pair(s2, item, c)
                    IN [st |-> s3, files |-> export_data_upto(s3, w.files, k)]
               ELSE [st |-> s2, files |-> w.files]

\* submit_qa on the item shown, export_data writing its first k files
submit_qa(w, c, q_in, a_in, d, k) ==
    LET item == get_current_data(w.st)
        s1 == BeginSubmit(w.st, item, q_in, a_in, d)
    IN IF ~c.suitable
       THEN LET s2 == mark_unsuitable(s1, item)
            IN [st |-> s2, files |-> export_data_upto(s2, w.files, k)]
       ELSE LET s2 == [s1 EXCEPT !.errors = SubmitErrors(item, c)]
            IN IF Accepted(s2.errors)
               THEN LET s3 == save_qa_pair(s2, item, c)
                    IN [st |-> s3, files |-> export_data_upto(s3, w.files, k)]
               ELSE [st |-> s2, files |-> w.files]

-----------------------------------------------------------------------------
(* Calibration, login, logout *)

\* len(examples), line 1010
NumExamples == 2

\* the seconds a calibration click adds to its page, and the totals a page
\* may reach
ExampleSeconds == {1}
ExampleTotals == {1}

\* time.time() - start_time, in whole seconds
Durations == {1, 2}

Users == {"u1"}

\* update_time (lines 1017-1026)
update_time(w, d) ==
    LET key == IntKey(w.st.example_index)
        so_far == IF key \in DOMAIN w.st.times.examples
                  THEN w.st.times.examples[key] ELSE 0
        s1 == [w.st EXCEPT !.times.examples = Put(@, key, so_far + d)]
    IN [ st |-> s1,
         files |-> [w.files EXCEPT !.exists = @ \cup {"times.json"},
                                   !.times = JsonTimes(s1.times)] ]

\* next_example (lines 1028-1035)
next_example(w, d) ==
    LET w1 == update_time(w, d)
        s2 == [w1.st EXCEPT !.example_index = @ + 1]
    IN [w1 EXCEPT !.st = IF s2.example_index = NumExamples
                         THEN [s2 EXCEPT !.examples_finished = TRUE] ELSE s2]

\* previous_example (lines 1037-1040)
previous_example(w, d) ==
    LET w1 == update_time(w, d)
    IN [w1 EXCEPT !.st.example_index = @ - 1]

\* mutant: the profile is written anew whether or not it exists
init_user_remaking(f) ==
    [f EXCEPT !.exists = @ \cup {"profile.json"}, !.profile = <<>>]

\* init_user (lines 532-548)
init_user(f) ==
    IF "profile.json" \in f.exists THEN f
    ELSE [f EXCEPT !.exists = @ \cup {"profile.json"}, !.profile = <<>>]

\* mutant: the calibration flag survives the logout
logout_keeping_calibration(s) ==
    [ s EXCEPT !.user = "None",
               !.completed_questions = NotLoaded,
               !.unsuitable_questions = EmptyDict,
               !.kept_pairs = <<>>,
               !.example_index = 0,
               !.times = EmptyTimes,
               !.errors = NoErrors ]

\* render_user_info, logout pressed (lines 586-604)
logout(s) ==
    [ s EXCEPT !.user = "None",
               !.completed_questions = NotLoaded,
               !.unsuitable_questions = EmptyDict,
               !.kept_pairs = <<>>,
               !.example_index = 0,
               !.examples_finished = FALSE,
               !.times = EmptyTimes,
               !.errors = NoErrors ]

-----------------------------------------------------------------------------
(* The session: one action per interaction, each followed by the script run *)

World == [st |-> st, files |-> files]

Becomes(w, l) ==
    /\ st' = w.st
    /\ files' = w.files
    /\ last' = l
    /\ UNCHANGED <<insecure, validatorVars, aggregatorVars, shufflerVars>>

\* which view the last script run drew (lines 1165-1175)
PasswordView == ~insecure /\ ~st.password_given
LoginView == ~PasswordView /\ st.user = "None"
CalibrationView == ~PasswordView /\ st.user # "None" /\ ~st.examples_finished
QaView ==
    /\ ~PasswordView /\ st.user # "None" /\ st.examples_finished
    /\ "profile.json" \in files.exists
ItemShown == QaView /\ st.index_input < Len(st.data)
Completed == QaView /\ st.index_input = Len(st.data)

\* render_password_view, the right password typed (lines 629-631)
GivePassword ==
    /\ PasswordView
    /\ Becomes(main([World EXCEPT !.st.password_given = TRUE]), Handler("password"))

\* mutant: the completion marker is not looked at
LoginWhateverTheMarker ==
    /\ LoginView
    /\ \E username \in Users :
          Becomes(main([st |-> [st EXCEPT !.user = username],
                        files |-> init_user(files)]),
                  Handler("login"))

\* show_login_view (lines 1088-1118)
Login ==
    /\ LoginView
    /\ \E username \in Users :
          IF "complete" \in files.exists
          THEN Becomes(World, Handler("login refused"))
          ELSE Becomes(main([st |-> [st EXCEPT !.user = username],
                             files |-> init_user(files)]),
                       Handler("login"))

NextExample ==
    /\ CalibrationView
    /\ \E d \in ExampleSeconds :
          /\ next_example(World, d).st.times.examples[IntKey(st.example_index)]
                \in ExampleTotals
          /\ Becomes(main(next_example(World, d)), Handler("next_example"))

PreviousExample ==
    /\ CalibrationView
    /\ st.example_index > 0
    /\ \E d \in ExampleSeconds :
          /\ previous_example(World, d).st.times.examples[IntKey(st.example_index)]
                \in ExampleTotals
          /\ Becomes(main(previous_example(World, d)), Handler("previous_example"))

Logout ==
    /\ CalibrationView \/ QaView
    /\ Becomes(main([World EXCEPT !.st = logout(st)]), Handler("logout"))

\* the explanation inputs of one submission: nothing but whitespace, with the
\* answer widget not drawn; or a question explanation and an empty answer one
NoteInputs ==
    { [question |-> <<Space>>, answer |-> NoKey],
      [question |-> <<"n", Space>>, answer |-> <<>>] }

Submission(c, n, d) ==
    [ kind |-> "submit_qa",
      suitable |-> c.suitable,
      faulty |-> ~Accepted(SubmitErrors(get_current_data(st),
                                        [c EXCEPT !.suitable = TRUE])),
      question_note |-> n.question,
      answer_note |-> n.answer,
      elapsed |-> d ]

\* the Submit button: submit_qa, then the script runs again
SubmitQa ==
    /\ ItemShown
    /\ \E c \in SessionCandidates(get_current_data(st)), n \in NoteInputs,
          d \in Durations :
          Becomes(main(submit_qa(World, c, n.question, n.answer, d, Len(ExportOrder))),
                  Submission(c, n, d))

\* the process is killed between two writes of export_data: the files written
\* so far stay, the session is gone
SubmitQaKilled ==
    /\ ItemShown
    /\ \E c \in SessionCandidates(get_current_data(st)), n \in NoteInputs,
          d \in Durations, k \in 0..(Len(ExportOrder) - 1) :
          /\ ~c.suitable \/ Accepted(SubmitErrors(get_current_data(st), c))
          /\ Becomes([ st |-> FreshSession,
                       files |-> submit_qa(World, c, n.question, n.answer, d, k).files ],
                     Handler("killed"))

\* any other interaction: the script runs again with no callback
Rerun ==
    /\ Becomes(main(World), last)

\* the browser session ends; the files stay
CloseSession ==
    /\ st # FreshSession
    /\ Becomes([World EXCEPT !.st = FreshSession], Handler("closed"))

Init ==
    /\ SessionInit
    /\ insecure \in BOOLEAN
    /\ ValidatorIdle
    /\ AggregatorIdle /\ ShufflerIdle

Next ==
    \/ GivePassword
    \/ Login
    \/ NextExample
    \/ PreviousExample
    \/ Logout
    \/ SubmitQa
    \/ Rerun
    \/ CloseSession

Spec == Init /\ [][Next]_vars

\* a reviewer who goes through the phases and submits, without logging out
\* or closing the browser; a pending password, login or calibration click is
\* eventually made
ReviewNext ==
    \/ GivePassword
    \/ Login
    \/ NextExample
    \/ SubmitQa

ReviewSpec ==
    /\ Init /\ [][ReviewNext]_vars
    /\ WF_vars(GivePassword) /\ WF_vars(Login) /\ WF_vars(NextExample)

\* the session with a process that can die inside export_data
InterruptedNext == Next \/ SubmitQaKilled

InterruptedSpec == Init /\ [][InterruptedNext]_vars

-----------------------------------------------------------------------------
(* Cursor harness: run_qa_tool on a profile directory left by earlier work *)

\* the Judgement of an item accepted as generated
AsGenerated(item) ==
    Judgement(item, Candidate(TRUE, TRUE, TRUE, TRUE, TRUE, item.Question, item.Answer))

\* profile.json: Judgements of any of the questions of the generated dataset
ProfilesOnDisk ==
    LET all == << AsGenerated(GeneratedData[1]), AsGenerated(GeneratedData[3]),
                  AsGenerated(GeneratedData[4]) >>
    IN { [ i \in 1..Len(SelectSeq(all, LAMBDA j : j.Question \in qs)) |->
             SelectSeq(all, LAMBDA j : j.Question \in qs)[i] ] :
         qs \in SUBSET { all[i].Question : i \in 1..Len(all) } }

\* unsuitable_questions.json: any contexts, each with a list of questions
UnsuitableOnDisk ==
    UNION { [ d -> { <<>>, <<Q1>>, <<Q2>>, <<Q1, Q2>> } ] : d \in SUBSET {CtxA, CtxB} }

\* calibration is over and the profile directory was read (lines 465-518);
\* run_qa_tool has not run yet
CursorInit ==
    /\ insecure = TRUE /\ ValidatorIdle /\ AggregatorIdle /\ ShufflerIdle
    /\ last = Handler("next_example")
    /\ \E p \in ProfilesOnDisk, u \in UnsuitableOnDisk :
          /\ files = [NoFiles EXCEPT
                         !.exists = {"profile.json", "unsuitable_questions.json"},
                         !.profile = p,
                         !.unsuitable = u]
          /\ st = [ load_user_profile_and_dataset(
                        [FreshSession EXCEPT !.user = "u1"], files)
                    EXCEPT !.examples_finished = TRUE ]

\* run_qa_tool runs for the first time in the session
RunQaTool ==
    /\ last.kind = "next_example"
    /\ Becomes(run_qa_tool(World), Handler("run_qa_tool"))

CursorNext == RunQaTool

CursorSpec == CursorInit /\ [][CursorNext]_vars

-----------------------------------------------------------------------------
(* Login harness: show_login_view on a profile directory left by earlier work *)

\* a browser session opens on the login view; the reviewer's directory is
\* empty, or holds a profile and an Unsuitable record, with or without the
\* completion marker
LoginInit ==
    /\ insecure = TRUE /\ ValidatorIdle /\ AggregatorIdle /\ ShufflerIdle
    /\ last = NoSubmission
    /\ st = FreshSession
    /\ \/ files = NoFiles
       \/ \E p \in ProfilesOnDisk, u \in UnsuitableOnDisk, done \in BOOLEAN :
             files = [NoFiles EXCEPT
                         !.exists = {"profile.json", "unsuitable_questions.json"}
                                        \cup (IF done THEN {"complete"} ELSE {}),
                         !.profile = p,
                         !.unsuitable = u]

LoginNext == Login \/ Logout

LoginSpec == LoginInit /\ [][LoginNext]_vars

-----------------------------------------------------------------------------
(* Shuffler harness: shuffle_qa_data called on lists of triples of any order *)

ShuffleUsers == {"u1", "u2"}

\* (context, question, answer) triples: two of one context, one of another
ShuffleItems ==
    { Item(CtxA, Q1, <<"a">>), Item(CtxB, Q1, <<"b">>), Item(CtxA, Q2, <<"b">>) }

ShuffleInputs == UNION { [1..n -> ShuffleItems] : n \in 0..MaxTriples }

ShufflerInit ==
    /\ SessionInit /\ insecure = TRUE /\ ValidatorIdle
    /\ agg_pairs = <<>> /\ agg_output = kept_pairs_to_output(<<>>)
    /\ shuffle_input \in ShuffleInputs
    /\ shuffle_calls = <<>>

Reverse(seq) == [ i \in 1..Len(seq) |-> seq[Len(seq) + 1 - i] ]

\* mutant: the generator is not seeded, so a later call samples differently
ShuffleCallUnseeded ==
    /\ Len(shuffle_calls) < 2
    /\ \E username \in ShuffleUsers :
          shuffle_calls' =
              Append(shuffle_calls,
                     [ username |-> username,
                       result |-> IF shuffle_calls = <<>>
                                  THEN shuffle_qa_data(username, shuffle_input)
                                  ELSE Reverse(shuffle_qa_data(username, shuffle_input)) ])
    /\ UNCHANGED <<shuffle_input, sessionVars, validatorVars, aggregatorVars>>

\* one call, as load_user_profile_and_dataset makes it at line 495; two calls
\* stand for two sessions over the same dataset
ShuffleCall ==
    /\ Len(shuffle_calls) < 2
    /\ \E username \in ShuffleUsers :
          shuffle_calls' =
              Append(shuffle_calls,
                     [ username |-> username,
                       result |-> shuffle_qa_data(username, shuffle_input) ])
    /\ UNCHANGED <<shuffle_input, sessionVars, validatorVars, aggregatorVars>>

ShufflerNext == ShuffleCall

ShufflerSpec == ShufflerInit /\ [][ShufflerNext]_vars

-----------------------------------------------------------------------------
(* Claims about the queue cursor *)

\* item i (0-based) of the queue is resolved: its question is in the
\* completed-question set, or its (context, question) is in the Unsuitable record
Resolved(s, i) ==
    LET item == s.data[i + 1]
    IN \/ item.Question \in s.completed_questions
       \/ /\ item.Context \in DOMAIN s.unsuitable_questions
          /\ \E k \in 1..Len(s.unsuitable_questions[item.Context]) :
                s.unsuitable_questions[item.Context][k] = item.Question

Unresolved(s) == { i \in 0..(Len(s.data) - 1) : ~Resolved(s, i) }

\* C14: the cursor started at 0 stops at the smallest index that is not
\* resolved, and end-of-queue (position N, completion marker written) is
\* signalled exactly when every index is resolved.
C14_CursorStopsAtFirstUnresolved ==
    last.kind = "run_qa_tool" =>
        IF Unresolved(st) = {}
        THEN st.index_input = Len(st.data) /\ "complete" \in files.exists
        ELSE /\ st.index_input \in Unresolved(st)
             /\ \A i \in Unresolved(st) : st.index_input <= i
             /\ "complete" \notin files.exists

C14_Witness ==
    /\ last.kind = "run_qa_tool"
    /\ st.completed_questions = {Q2}
    /\ DOMAIN st.unsuitable_questions = {CtxA}
    /\ st.unsuitable_questions[CtxA] = <<Q1>>
    /\ st.index_input = 1
    /\ Len(st.data) > 1

-----------------------------------------------------------------------------
(* Claims about the session *)

AnswersOccurInContext(pairs) ==
    \A i \in 1..Len(pairs) : Contains(pairs[i].Context, pairs[i].UserAnswer)

\* C2: every Judgement of the profile, in memory and on disk, has a
\* user_answer that occurs verbatim in its context.
C2_StoredAnswerOccursInContext ==
    AnswersOccurInContext(st.kept_pairs) /\ AnswersOccurInContext(files.profile)

\* a step in which submit_qa ran on the item shown and changed the session
SubmitStep == ItemShown /\ last'.kind = "submit_qa" /\ st' # st

\* C4: a submission that reports violations writes no file, leaves the
\* Judgement list, the completed-question set, the Unsuitable record and the
\* cursor as they were, and the same item is shown again.
C4_RejectedSubmissionChangesNothingDurable ==
    [][ (SubmitStep /\ st'.errors # NoErrors) =>
            /\ files' = files
            /\ st'.kept_pairs = st.kept_pairs
            /\ st'.completed_questions = st.completed_questions
            /\ st'.unsuitable_questions = st.unsuitable_questions
            /\ st'.index_input = st.index_input
            /\ st'.index_input < Len(st'.data)
            /\ get_current_data(st') = get_current_data(st) ]_vars

C4_Witness ==
    /\ last.kind = "submit_qa" /\ last.suitable
    /\ st.errors # NoErrors
    /\ ItemShown
    /\ st.index_input > 0
    /\ files.unsuitable = st.unsuitable_questions
    /\ "notes.json" \in files.exists /\ files.notes # st.notes

HasNote(ns, item) ==
    item.Context \in DOMAIN ns /\ item.Question \in DOMAIN ns[item.Context]

\* what the submission recorded in `last` supplied as explanations
SuppliesNote(l) ==
    Strip(l.question_note) # <<>> \/ StrippedAnswerNote(l.answer_note) # <<>>

\* C5: the Notes and Timing records written by an accepted submission hold,
\* for its item, only what that submission itself supplied: nothing left by
\* an earlier rejected submission.
C5_RejectedContentNeverPersisted ==
    [][ (SubmitStep /\ st'.errors = NoErrors) =>
            LET item == get_current_data(st)
            IN /\ files'.times.questions[StrKey(st.index_input)] = last'.elapsed
               /\ HasNote(files'.notes, item) => SuppliesNote(last')
               /\ HasNote(files'.notes, item) =>
                     files'.notes[item.Context][item.Question]
                        = NoteEntry(item.Answer, Strip(last'.question_note),
                                    StrippedAnswerNote(last'.answer_note)) ]_vars

\* the questions of the Unsuitable record, whatever their context
UnsuitableQuestions(uq) == UNION { Range(uq[c]) : c \in DOMAIN uq }

\* C6 as stated: no question is both in the Unsuitable record, under any
\* context, and the original question of a Judgement.
C6_NoQuestionUnsuitableAndJudged ==
    /\ \A i \in 1..Len(st.kept_pairs) :
          st.kept_pairs[i].Question \notin UnsuitableQuestions(st.unsuitable_questions)
    /\ \A i \in 1..Len(files.profile) :
          files.profile[i].Question \notin UnsuitableQuestions(files.unsuitable)

NoItemUnsuitableAndJudged(pairs, uq) ==
    \A i \in 1..Len(pairs) :
        ~( /\ pairs[i].Context \in DOMAIN uq
           /\ pairs[i].Question \in Range(uq[pairs[i].Context]) )

\* C6 amended: no item, i.e. no (context, question) pair, is both in the
\* Unsuitable record under its context and the original of a Judgement.
C6_NoItemUnsuitableAndJudged ==
    /\ NoItemUnsuitableAndJudged(st.kept_pairs, st.unsuitable_questions)
    /\ NoItemUnsuitableAndJudged(files.profile, files.unsuitable)

C6_Witness ==
    /\ Len(files.profile) = 1
    /\ files.profile[1].Question \in UnsuitableQuestions(files.unsuitable)
    /\ files.profile = st.kept_pairs
    /\ files.unsuitable = st.unsuitable_questions

\* C7: a submission marked unsuitable reports no violation whatever its other
\* fields, appends the question to the Unsuitable record under its context,
\* in memory and on disk, and appends no Judgement.
C7_UnsuitableAcceptedUnconditionally ==
    [][ (SubmitStep /\ ~last'.suitable) =>
            LET item == get_current_data(st)
                before == IF item.Context \in DOMAIN st.unsuitable_questions
                          THEN st.unsuitable_questions[item.Context] ELSE <<>>
            IN /\ st'.errors = NoErrors
               /\ item.Context \in DOMAIN st'.unsuitable_questions
               /\ st'.unsuitable_questions[item.Context] = Append(before, item.Question)
               /\ files'.unsuitable = st'.unsuitable_questions
               /\ st'.kept_pairs = st.kept_pairs
               /\ files'.profile = files.profile ]_vars

C7_Witness ==
    /\ last.kind = "submit_qa" /\ ~last.suitable /\ last.faulty
    /\ st.errors = NoErrors
    /\ st.kept_pairs = <<>>
    /\ CtxA \in DOMAIN files.unsuitable
    /\ files.unsuitable[CtxA] = <<Q1>>

-----------------------------------------------------------------------------
(* Claims about the aggregator *)

\* a Judgement accepted as it was generated
AcceptedAsIs(kp) ==
    /\ kp.QuestionNaturalness /\ kp.AnswerNaturalness /\ kp.AnswerAdequacy
    /\ kp.UserQuery = kp.Question
    /\ kp.UserAnswer = kp.Answer
    /\ Contains(kp.Context, kp.Answer)

\* C1: aggregating a single Judgement accepted as-is gives one context, one
\* question and exactly one answer entry at the answer's first offset, and
\* empty unnatural and incorrect lists.
C1_AsIsJudgementHasOneAnswerEntry ==
    (Len(agg_pairs) = 1 /\ AcceptedAsIs(agg_pairs[1])) =>
        /\ Len(agg_output.squad) = 1
        /\ Len(agg_output.squad[1].qas) = 1
        /\ Len(agg_output.squad[1].qas[1].answers) = 1
        /\ agg_output.squad[1].qas[1].answers[1].answer_start
              = Index(agg_pairs[1].Context, agg_pairs[1].Answer)
        /\ agg_output.unnatural = <<>>
        /\ agg_output.incorrect = <<>>

\* every question entry of a verified dataset has an answer entry
NoEmptyAnswers(squad) ==
    \A i \in 1..Len(squad) :
        \A j \in 1..Len(squad[i].qas) : Len(squad[i].qas[j].answers) >= 1

\* C3: in the verified dataset aggregated from any Judgement list, every
\* question entry carries at least one answer entry.
C3_EveryQuestionHasAnAnswer == NoEmptyAnswers(agg_output.squad)

-----------------------------------------------------------------------------
(* Claims about the validation rules *)

BlankSubmittedQuestion == Strip(cand.c.user_question) = <<>>

\* C8 as stated: a candidate whose submitted question is blank after trimming
\* gets the blank-question violation whatever its other fields, the
\* suitability flag included.
C8_BlankQuestionAlwaysReported ==
    (cand_done /\ BlankSubmittedQuestion)
        => BlankQuestion \in Range(cand_errors.question)

\* C8 amended: a candidate marked suitable whose submitted question is blank
\* after trimming gets the blank-question violation whatever its other fields.
C8_BlankQuestionReportedWhenSuitable ==
    (cand_done /\ cand.c.suitable /\ BlankSubmittedQuestion)
        => BlankQuestion \in Range(cand_errors.question)

C8_Witness ==
    /\ cand_done /\ cand.c.suitable
    /\ cand.c.user_question = <<Space>>
    /\ ~cand.c.question_natural /\ cand.c.answer_adequate
    /\ BlankQuestion \in Range(cand_errors.question)

AnswerNotInDocument == ~Contains(cand.item.Context, Strip(cand.c.user_answer))

\* C9 as stated: a trimmed answer that is no substring of the context gets the
\* does-not-appear violation whatever the naturalness and suitability flags.
C9_MissingAnswerAlwaysReported ==
    (cand_done /\ AnswerNotInDocument)
        => NotInDocument(Strip(cand.c.user_answer)) \in Range(cand_errors.answer)

\* C9 amended: for a candidate marked suitable, a trimmed answer that is no
\* substring of the context gets the does-not-appear violation, naming the
\* trimmed text, whatever the naturalness flags.
C9_MissingAnswerReportedWhenSuitable ==
    (cand_done /\ cand.c.suitable /\ AnswerNotInDocument)
        => NotInDocument(Strip(cand.c.user_answer)) \in Range(cand_errors.answer)

C9_Witness ==
    /\ cand_done /\ cand.c.suitable
    /\ cand.c.user_answer = <<"c">>
    /\ AnswerNotInDocument
    /\ cand.c.answer_natural /\ cand.c.question_natural
    /\ NotInDocument(Strip(cand.c.user_answer)) \in Range(cand_errors.answer)

\* the fields of the candidate other than precise/adequate agree with each other
SelfConsistent(item, c) ==
    /\ Strip(c.user_question) # <<>>
    /\ Strip(c.user_answer) # <<>>
    /\ (Strip(c.user_question) # Strip(item.Question)) <=> ~c.question_natural
    /\ Contains(item.Context, Strip(c.user_answer))
    /\ (Strip(c.user_answer) # Strip(item.Answer)) <=> ~c.answer_natural

\* C10: a suitable, otherwise self-consistent candidate marked precise but not
\* adequate gets exactly one violation, precise-implies-adequate.
C10_OnlyPreciseImpliesAdequate ==
    ( /\ cand_done /\ cand.c.suitable
      /\ cand.c.answer_correct /\ ~cand.c.answer_adequate
      /\ SelfConsistent(cand.item, cand.c) )
        => cand_errors = [question |-> <<>>, answer |-> <<PreciseNotAdequate>>]

C10_Witness ==
    /\ cand_done /\ cand.c.suitable
    /\ cand.c.answer_correct /\ ~cand.c.answer_adequate
    /\ SelfConsistent(cand.item, cand.c)
    /\ cand.c.answer_natural
    /\ cand_errors.answer = <<PreciseNotAdequate>>

Only(b, m) == IF b THEN {m} ELSE {}

\* the violations the rules of section 4.3 call for, rule by rule
QuestionViolationsDue(item, c) ==
    LET q == Strip(c.user_question)
        edited == q # Strip(item.Question)
    IN Only(q = <<>>, BlankQuestion)
       \cup Only(edited /\ c.question_natural, ModifiedNaturalQuestion)
       \cup Only(~edited /\ ~c.question_natural, UnmodifiedUnnaturalQuestion)

AnswerViolationsDue(item, c) ==
    LET a == Strip(c.user_answer)
        edited == a # Strip(item.Answer)
    IN Only(a = <<>>, BlankAnswer)
       \cup Only(~Contains(item.Context, a), NotInDocument(a))
       \cup Only(c.answer_correct /\ ~c.answer_adequate, PreciseNotAdequate)
       \cup Only(edited /\ c.answer_correct /\ c.answer_natural, ModifiedPerfectAnswer)
       \cup Only(~edited /\ ~c.answer_natural, UnmodifiedUnnaturalAnswer)
       \cup Only(~edited /\ ~c.answer_adequate /\ ~c.answer_correct,
                 UnmodifiedIncorrectAnswer)

\* C11: for a suitable candidate every rule is evaluated: the violations
\* reported are exactly those of the rules it breaks, one each, so a candidate
\* breaking k rules gets k violations.
C11_EveryBrokenRuleReported ==
    (cand_done /\ cand.c.suitable) =>
        /\ Range(cand_errors.question) = QuestionViolationsDue(cand.item, cand.c)
        /\ Len(cand_errors.question)
              = Cardinality(QuestionViolationsDue(cand.item, cand.c))
        /\ Range(cand_errors.answer) = AnswerViolationsDue(cand.item, cand.c)
        /\ Len(cand_errors.answer)
              = Cardinality(AnswerViolationsDue(cand.item, cand.c))

C11_Witness ==
    /\ cand_done /\ cand.c.suitable
    /\ cand_errors.question = <<BlankQuestion, ModifiedNaturalQuestion>>
    /\ cand_errors.answer
          = <<NotInDocument(<<"c">>), PreciseNotAdequate, ModifiedPerfectAnswer>>

IsQuestionEditViolation(m) ==
    m \in {ModifiedNaturalQuestion, UnmodifiedUnnaturalQuestion}

\* C12: with leading and trailing whitespace ignored in the comparison, a
\* suitable candidate gets the modified-but-natural violation exactly when the
\* question is edited and marked natural, the unmodified-but-unnatural one
\* exactly when it is not edited and not marked natural, and neither otherwise.
C12_QuestionEditRule ==
    (cand_done /\ cand.c.suitable) =>
        LET edited == Strip(cand.c.user_question) # Strip(cand.item.Question)
            natural == cand.c.question_natural
        IN SelectSeq(cand_errors.question, IsQuestionEditViolation)
              = IF edited /\ natural THEN <<ModifiedNaturalQuestion>>
                ELSE IF ~edited /\ ~natural THEN <<UnmodifiedUnnaturalQuestion>>
                ELSE <<>>

C12_Witness ==
    /\ cand_done /\ cand.c.suitable
    /\ cand.c.user_question = cand.item.Question \o <<Space>>
    /\ cand.c.question_natural
    /\ cand_errors.question = <<>>

IsAnswerEditViolation(m) ==
    m \in {ModifiedPerfectAnswer, UnmodifiedUnnaturalAnswer, UnmodifiedIncorrectAnswer}

\* C13: an edited answer gets a violation from the edit rule only when marked
\* both precise and natural; an unedited one gets one violation when not
\* marked natural and a separate one when marked neither adequate nor precise.
C13_AnswerEditRule ==
    (cand_done /\ cand.c.suitable) =>
        LET edited == Strip(cand.c.user_answer) # Strip(cand.item.Answer)
        IN SelectSeq(cand_errors.answer, IsAnswerEditViolation)
              = IF edited
                THEN If(cand.c.answer_correct /\ cand.c.answer_natural,
                        ModifiedPerfectAnswer)
                ELSE If(~cand.c.answer_natural, UnmodifiedUnnaturalAnswer)
                     \o If(~cand.c.answer_adequate /\ ~cand.c.answer_correct,
                           UnmodifiedIncorrectAnswer)

C13_Witness ==
    /\ cand_done /\ cand.c.suitable
    /\ cand.c.user_answer = cand.item.Answer
    /\ ~cand.c.answer_natural /\ ~cand.c.answer_adequate /\ ~cand.c.answer_correct
    /\ cand_errors.answer = <<UnmodifiedUnnaturalAnswer, UnmodifiedIncorrectAnswer>>

-----------------------------------------------------------------------------
(* Claims about question strings shared by two contexts *)

JudgedQuestions(pairs) == { pairs[i].Question : i \in 1..Len(pairs) }

HasJudgement(pairs, item) ==
    \E i \in 1..Len(pairs) :
        pairs[i].Context = item.Context /\ pairs[i].Question = item.Question

HasUnsuitableEntry(uq, item) ==
    /\ item.Context \in DOMAIN uq
    /\ \E k \in 1..Len(uq[item.Context]) : uq[item.Context][k] = item.Question

\* C15: once a Judgement is accepted for a question, an item with the same
\* question string is never presented, whatever its context; the queue can
\* thereby complete with an item that has neither a Judgement nor an
\* Unsuitable entry (the witness).
C15_JudgedQuestionSkippedUnderOtherContext ==
    ItemShown => get_current_data(st).Question \notin JudgedQuestions(st.kept_pairs)

C15_Witness ==
    /\ Completed
    /\ "complete" \in files.exists
    /\ Len(st.kept_pairs) = 1
    /\ files.profile = st.kept_pairs
    /\ \E i \in 1..Len(st.data) :
          /\ st.data[i].Question \in JudgedQuestions(st.kept_pairs)
          /\ ~HasJudgement(st.kept_pairs, st.data[i])
          /\ ~HasUnsuitableEntry(st.unsuitable_questions, st.data[i])

\* C16 as stated: a question marked unsuitable under one context is skipped
\* under every other context, so it is never the question shown.
C16_UnsuitableQuestionSkippedEverywhere ==
    ItemShown =>
        get_current_data(st).Question
            \notin UnsuitableQuestions(st.unsuitable_questions)

\* C16 amended: unsuitable tracking is keyed by (context, question): when a
\* question is marked unsuitable under its context and the next item has the
\* same question under a different context, with no Judgement and no
\* Unsuitable entry of its own, that next item is the one presented.
C16_UnsuitableKeyedByContext ==
    [][ (SubmitStep /\ ~last'.suitable /\ st.index_input + 1 < Len(st.data)) =>
            LET item == get_current_data(st)
                next == st.data[st.index_input + 2]
            IN ( /\ next.Question = item.Question
                 /\ next.Context # item.Context
                 /\ next.Question \notin st.completed_questions
                 /\ ~HasUnsuitableEntry(st.unsuitable_questions, next) )
               => /\ st'.index_input = st.index_input + 1
                  /\ get_current_data(st') = next ]_vars

C16_Witness ==
    /\ ItemShown
    /\ last.kind = "submit_qa" /\ ~last.suitable
    /\ st.index_input = 1
    /\ get_current_data(st) = Item(CtxB, Q1, <<"b">>)
    /\ HasUnsuitableEntry(st.unsuitable_questions, Item(CtxA, Q1, <<"a">>))
    /\ st.kept_pairs = <<>>

-----------------------------------------------------------------------------
(* Claims about what the aggregator does with each Judgement *)

\* the condition of section 4.4 under which the original pair is a candidate
OriginalIsCandidate(kp) ==
    /\ kp.QuestionNaturalness
    /\ kp.AnswerNaturalness
    /\ (kp.AnswerAdequacy \/ kp.AnswerCorrectness)

\* what one Judgement is due to add to the unnatural and the incorrect list
UnnaturalDue(kp) ==
    IF OriginalIsCandidate(kp) THEN <<>>
    ELSE (IF ~kp.QuestionNaturalness THEN <<kp.Question>> ELSE <<>>)
         \o (IF ~kp.AnswerNaturalness THEN <<kp.Answer>> ELSE <<>>)

IncorrectDue(kp) ==
    IF ~OriginalIsCandidate(kp) /\ ~kp.AnswerAdequacy /\ ~kp.AnswerCorrectness
    THEN << <<kp.Question, kp.Answer>> >> ELSE <<>>

RECURSIVE Concat(_)
Concat(seqs) == IF seqs = <<>> THEN <<>> ELSE Head(seqs) \o Concat(Tail(seqs))

\* the (question, answer) pairs a Judgement offers, as [q, a] records
CandidatePairs(kp) ==
    << [q |-> kp.UserQuery, a |-> kp.UserAnswer] >>
    \o (IF OriginalIsCandidate(kp) THEN << [q |-> kp.Question, a |-> kp.Answer] >>
        ELSE <<>>)

\* every answer entry of a verified dataset, as [context, question, text]
EntriesOf(squad) ==
    Concat([ i \in 1..Len(squad) |->
        Concat([ j \in 1..Len(squad[i].qas) |->
            [ k \in 1..Len(squad[i].qas[j].answers) |->
                [ context |-> squad[i].context,
                  question |-> squad[i].qas[j].question,
                  text |-> squad[i].qas[j].answers[k].text ] ] ]) ])

\* the candidate pairs of a Judgement whose answer text is in its context
FoundPairs(kp) ==
    SelectSeq(CandidatePairs(kp), LAMBDA e : Contains(kp.Context, e.a))

\* C17: the original pair of a Judgement is a candidate answer entry iff the
\* question was natural, the answer natural and (adequate or correct); only
\* otherwise the question goes to the unnatural list when not natural, the
\* answer when not natural, and the pair to the incorrect list when neither
\* adequate nor correct.
C17_OriginalPairKeptOrListed ==
    /\ agg_output.unnatural
          = Concat([ i \in 1..Len(agg_pairs) |-> UnnaturalDue(agg_pairs[i]) ])
    /\ agg_output.incorrect
          = Concat([ i \in 1..Len(agg_pairs) |-> IncorrectDue(agg_pairs[i]) ])
    /\ Len(EntriesOf(agg_output.squad))
          = Len(Concat([ i \in 1..Len(agg_pairs) |-> FoundPairs(agg_pairs[i]) ]))
    /\ \A i \in 1..Len(agg_pairs) :
          ( /\ ~OriginalIsCandidate(agg_pairs[i])
            /\ \A j \in 1..Len(agg_pairs) :
                  /\ agg_pairs[j].UserQuery # agg_pairs[i].Question
                  /\ OriginalIsCandidate(agg_pairs[j])
                        => agg_pairs[j].Question # agg_pairs[i].Question )
          => \A k \in 1..Len(EntriesOf(agg_output.squad)) :
                EntriesOf(agg_output.squad)[k].question # agg_pairs[i].Question

\* the case singled out by the claim: question not natural, answer natural
\* and adequate, the reviewer having rewritten the question
C17_Witness ==
    /\ Len(agg_pairs) = 1
    /\ ~agg_pairs[1].QuestionNaturalness
    /\ agg_pairs[1].AnswerNaturalness /\ agg_pairs[1].AnswerAdequacy
    /\ agg_pairs[1].UserQuery = <<"p">>
    /\ agg_output.unnatural = <<agg_pairs[1].Question>>
    /\ agg_output.incorrect = <<>>
    /\ Len(EntriesOf(agg_output.squad)) = 1
    /\ EntriesOf(agg_output.squad)[1].question = <<"p">>

\* the answer entries due under (context, question), in the order the
\* Judgements offer them, the entries whose text is not in the context left out
AnswersDue(pairs, context, question) ==
    LET of(kp) ==
          IF kp.Context # context THEN <<>>
          ELSE SelectSeq(FoundPairs(kp), LAMBDA e : e.q = question)
        found == Concat([ i \in 1..Len(pairs) |-> of(pairs[i]) ])
    IN [ k \in 1..Len(found) |->
           [text |-> found[k].a, answer_start |-> Index(context, found[k].a)] ]

HasBadEntry(kp) ==
    \E k \in 1..Len(CandidatePairs(kp)) :
        ~Contains(kp.Context, CandidatePairs(kp)[k].a)

\* C19: an answer text that is not in its context costs that one answer
\* entry only: aggregation returns, every other entry of the same and of the
\* other Judgements is under its (context, question) in its place, and the
\* unnatural and incorrect lists are what the Judgements call for.
C19_OnlyTheBadEntryIsDropped ==
    /\ \A i \in 1..Len(agg_pairs) :
          \A k \in 1..Len(FoundPairs(agg_pairs[i])) :
             \E p \in 1..Len(agg_output.squad) :
                /\ agg_output.squad[p].context = agg_pairs[i].Context
                /\ \E j \in 1..Len(agg_output.squad[p].qas) :
                      agg_output.squad[p].qas[j].question
                          = FoundPairs(agg_pairs[i])[k].q
    /\ \A p \in 1..Len(agg_output.squad) :
          \A j \in 1..Len(agg_output.squad[p].qas) :
             agg_output.squad[p].qas[j].answers
                = AnswersDue(agg_pairs, agg_output.squad[p].context,
                             agg_output.squad[p].qas[j].question)
    /\ Len(agg_output.unnatural)
          = Len(Concat([ i \in 1..Len(agg_pairs) |-> UnnaturalDue(agg_pairs[i]) ]))
    /\ Len(agg_output.incorrect)
          = Len(Concat([ i \in 1..Len(agg_pairs) |-> IncorrectDue(agg_pairs[i]) ]))

C19_Witness ==
    /\ Len(agg_pairs) = 2
    /\ agg_pairs[1].Context = agg_pairs[2].Context
    /\ ~HasBadEntry(agg_pairs[1])
    /\ HasBadEntry(agg_pairs[2])
    /\ Len(FoundPairs(agg_pairs[1])) = 2
    /\ Len(FoundPairs(agg_pairs[2])) = 1
    /\ Len(EntriesOf(agg_output.squad)) = 3

\* C20: every answer entry carries the offset of the first occurrence of its
\* text in its context: the context read from there gives the text, and it
\* gives the text at no smaller offset.
C20_OffsetIsFirstOccurrence ==
    \A p \in 1..Len(agg_output.squad) :
        \A j \in 1..Len(agg_output.squad[p].qas) :
            \A k \in 1..Len(agg_output.squad[p].qas[j].answers) :
                LET context == agg_output.squad[p].context
                    e == agg_output.squad[p].qas[j].answers[k]
                IN /\ e.answer_start >= 0
                   /\ e.answer_start + Len(e.text) <= Len(context)
                   /\ SubSeq(context, e.answer_start + 1,
                             e.answer_start + Len(e.text)) = e.text
                   /\ \A o \in 0..(e.answer_start - 1) :
                         SubSeq(context, o + 1, o + Len(e.text)) # e.text

\* an answer that occurs twice in its context, and one that starts past 0
C20_Witness ==
    /\ Len(agg_output.squad) = 2
    /\ agg_output.squad[1].context = CtxB
    /\ agg_output.squad[1].qas[1].answers[1] = [text |-> <<"b">>, answer_start |-> 0]
    /\ SubSeq(CtxB, 3, 3) = <<"b">>
    /\ agg_output.squad[2].context = CtxA
    /\ \E j \in 1..Len(agg_output.squad[2].qas) :
          /\ agg_output.squad[2].qas[j].answers # <<>>
          /\ agg_output.squad[2].qas[j].answers[1] = [text |-> <<"b">>, answer_start |-> 2]

-----------------------------------------------------------------------------
(* Claims about the three artifacts taken together *)

\* the question texts of a verified dataset, with or without answer entries
QuestionsOf(squad) ==
    UNION { { squad[i].qas[j].question : j \in 1..Len(squad[i].qas) } :
            i \in 1..Len(squad) }

AnswerTextsOf(squad) ==
    { EntriesOf(squad)[k].text : k \in 1..Len(EntriesOf(squad)) }

\* C18: after any sequence of accepted submissions no (question, answer) of
\* the incorrect list is a question of the verified dataset with that answer
\* text, and no string of the unnatural list is a question text or an answer
\* text of the verified dataset.
C18_ArtifactsAreDisjoint ==
    /\ \A m \in 1..Len(agg_output.incorrect) :
          \A k \in 1..Len(EntriesOf(agg_output.squad)) :
             ~( /\ EntriesOf(agg_output.squad)[k].question = agg_output.incorrect[m][1]
                /\ EntriesOf(agg_output.squad)[k].text = agg_output.incorrect[m][2] )
    /\ \A u \in 1..Len(agg_output.unnatural) :
          /\ agg_output.unnatural[u] \notin QuestionsOf(agg_output.squad)
          /\ agg_output.unnatural[u] \notin AnswerTextsOf(agg_output.squad)

-----------------------------------------------------------------------------
(* Claims about aggregation as a function *)

-----------------------------------------------------------------------------
(* Claims about the files of a reviewer *)

\* C22: after an accepted submission, suitable or unsuitable, whose writes
\* all ran, the seven files are there, the persisted verified dataset,
\* unnatural list and incorrect list are the aggregation of the persisted
\* Judgement list, and the persisted Judgement list, Unsuitable, Timing and
\* Notes records are those of the session (the Timing record as JSON encodes
\* it, its keys turned into strings).
C22_WriteSetIsConsistent ==
    [][ (SubmitStep /\ st'.errors = NoErrors) =>
            /\ Range(ExportOrder) \subseteq files'.exists
            /\ files'.squad = kept_pairs_to_output(files'.profile).squad
            /\ files'.unnatural = kept_pairs_to_output(files'.profile).unnatural
            /\ files'.incorrect = kept_pairs_to_output(files'.profile).incorrect
            /\ files'.profile = st'.kept_pairs
            /\ files'.unsuitable = st'.unsuitable_questions
            /\ files'.times = JsonTimes(st'.times)
            /\ files'.notes = st'.notes ]_vars

C22_Witness ==
    /\ last.kind = "submit_qa" /\ last.suitable /\ st.errors = NoErrors
    /\ Len(files.profile) = 1
    /\ files.squad # <<>>
    /\ files.unnatural # <<>>
    /\ files.incorrect # <<>>
    /\ DOMAIN files.unsuitable # {}
    /\ DOMAIN files.notes # {}
    /\ DOMAIN files.times.questions = {StrKey(0), StrKey(1)}

\* the three aggregates on disk are those of the Judgement list on disk
AggregatesMatchProfile(f) ==
    /\ f.squad = kept_pairs_to_output(f.profile).squad
    /\ f.unnatural = kept_pairs_to_output(f.profile).unnatural
    /\ f.incorrect = kept_pairs_to_output(f.profile).incorrect

\* C23: the files are written one after another, the Judgement list first:
\* when the process dies inside a write-set, an aggregate that was rewritten
\* is that of the Judgement list now on disk and so are the aggregates
\* written before it, while those not yet written are the old ones; the
\* Judgement list can thereby be ahead of its aggregates (the witness).
C23_WritesAreSequential ==
    [][ last'.kind = "killed" =>
          LET out == kept_pairs_to_output(files'.profile)
          IN /\ files'.squad # files.squad => files'.squad = out.squad
             /\ files'.unnatural # files.unnatural =>
                   files'.unnatural = out.unnatural /\ files'.squad = out.squad
             /\ files'.incorrect # files.incorrect =>
                   AggregatesMatchProfile(files')
             /\ ~AggregatesMatchProfile(files') =>
                   \/ ~AggregatesMatchProfile(files)
                   \/ /\ Len(files'.profile) = Len(files.profile) + 1
                      /\ SubSeq(files'.profile, 1, Len(files.profile)) = files.profile
                      /\ files'.incorrect = files.incorrect ]_vars

\* the new Judgement is on disk, the three aggregates are still the old ones
C23_Witness ==
    /\ last.kind = "killed"
    /\ Len(files.profile) = 1
    /\ files.squad = <<>> /\ files.unnatural = <<>> /\ files.incorrect = <<>>
    /\ kept_pairs_to_output(files.profile).squad # <<>>
    /\ kept_pairs_to_output(files.profile).unnatural # <<>>
    /\ kept_pairs_to_output(files.profile).incorrect # <<>>

-----------------------------------------------------------------------------
(* Claims about completion and login *)

\* C24: when the cursor has exhausted the queue the completion marker is there;
\* the marker is never removed; a script run in the completed state changes
\* nothing; and once the marker is there no login under that identity
\* succeeds, so the queue is not entered again.
RerenderChangesNothing ==
    main([st |-> st, files |-> files]) = [st |-> st, files |-> files]

C24_CompletionIsTerminal ==
    [][ /\ Completed' => ("complete" \in files'.exists /\ RerenderChangesNothing')
        /\ "complete" \in files.exists =>
              /\ "complete" \in files'.exists
              /\ st.user = "None" => st'.user = "None"
              /\ ~QaView => ~QaView' ]_vars

C24_Witness ==
    /\ last.kind = "login refused"
    /\ "complete" \in files.exists
    /\ LoginView
    /\ Len(files.profile) = 1

\* a new browser session of the same reviewer over the files on disk, brought
\* to the queue: the load of lines 465-518 and the cursor loop of 671-684
Resumed ==
    run_qa_tool([ st |-> [FreshSession EXCEPT !.password_given = st.password_given,
                                              !.user = st.user,
                                              !.examples_finished = TRUE],
                  files |-> files ]).st

\* C25: whenever the queue is on screen (so after every accepted submission
\* and its writes), a session started afresh from the files on disk has the
\* same queue, the same cursor, the same Judgement list, the same set of
\* completed questions and the same Unsuitable record as the running session.
C25_ResumingIsFaithful ==
    QaView =>
        /\ Resumed.data = st.data
        /\ Resumed.index_input = st.index_input
        /\ Resumed.kept_pairs = st.kept_pairs
        /\ Resumed.completed_questions = st.completed_questions
        /\ Resumed.unsuitable_questions = st.unsuitable_questions

C25_Witness ==
    /\ ItemShown
    /\ last.kind = "submit_qa" /\ ~last.suitable /\ st.errors = NoErrors
    /\ st.index_input = 1
    /\ DOMAIN files.unsuitable # {}
    /\ Resumed.index_input = 1

-----------------------------------------------------------------------------
(* Claims about shuffle_qa_data *)

\* items of one context lie next to each other
Contiguous(seq) ==
    \A i, j, k \in 1..Len(seq) :
        (i < k /\ k < j /\ seq[i].Context = seq[j].Context)
            => seq[k].Context = seq[i].Context

Count(x, seq) == Cardinality({ i \in 1..Len(seq) : seq[i] = x })

\* C26: for every list of triples, also one in which the items of a context
\* are not adjacent, the list shuffle_qa_data returns has the items of each
\* context next to each other.
C26_ShuffleGroupsContexts ==
    \A n \in 1..Len(shuffle_calls) : Contiguous(shuffle_calls[n].result)

\* C27: for every username and every list of triples, the list
\* shuffle_qa_data returns has each triple as many times as the input has it,
\* and no other triple.
C27_ShufflePreservesMultiset ==
    \A n \in 1..Len(shuffle_calls) :
        /\ Len(shuffle_calls[n].result) = Len(shuffle_input)
        /\ \A x \in ShuffleItems :
              Count(x, shuffle_calls[n].result) = Count(x, shuffle_input)

C27_Witness ==
    /\ Len(shuffle_calls) = 1
    /\ Len(shuffle_input) = 3
    /\ \E x \in ShuffleItems : Count(x, shuffle_input) = 2
    /\ ~Contiguous(shuffle_input)

-----------------------------------------------------------------------------
(* Claims about profile initialization *)

\* C29: a login that succeeds initializes the reviewer: where a profile
\* exists, the Judgement list and every other file on disk are left as they
\* were; where none exists, an empty Judgement list is created and nothing
\* else changes. Initializing what is already initialized changes nothing.
C29_InitUserIsIdempotent ==
    [][ (LoginView /\ st'.user # "None") =>
            /\ "profile.json" \in files.exists => files' = files
            /\ "profile.json" \notin files.exists =>
                  files' = [files EXCEPT !.exists = @ \cup {"profile.json"},
                                         !.profile = <<>>]
            /\ init_user(files') = files' ]_vars

C29_Witness ==
    /\ last.kind = "login"
    /\ st.user # "None"
    /\ Len(files.profile) = 2
    /\ DOMAIN files.unsuitable # {}
    /\ st.kept_pairs = files.profile

-----------------------------------------------------------------------------
(* Claims about the stored Judgements *)

\* the rules of lines 954-980 read off the stored fields of a Judgement
StoredFieldsConsistent(j) ==
    /\ j.AnswerCorrectness => j.AnswerAdequacy
    /\ j.QuestionNaturalness <=> (Strip(j.UserQuery) = Strip(j.Question))
    /\ (Strip(j.UserAnswer) = Strip(j.Answer))
          => (j.AnswerNaturalness /\ (j.AnswerAdequacy \/ j.AnswerCorrectness))

\* C30: in every Judgement that accepted submissions appended to the profile,
\* a precise answer is adequate; the question is marked natural exactly when
\* the stored user question equals the original one up to surrounding
\* whitespace; and a user answer equal to the original one up to surrounding
\* whitespace is marked natural and adequate or precise.
C30_StoredJudgementsAreConsistent ==
    \A k \in 1..Len(agg_pairs) : StoredFieldsConsistent(agg_pairs[k])

C30_Witness ==
    /\ Len(agg_pairs) = 2
    /\ agg_pairs[1].UserQuery # agg_pairs[1].Question
    /\ agg_pairs[1].QuestionNaturalness
    /\ ~agg_pairs[1].AnswerNaturalness
    /\ ~agg_pairs[2].QuestionNaturalness
    /\ agg_pairs[2].UserAnswer # agg_pairs[2].Answer
    /\ Strip(agg_pairs[2].UserAnswer) = Strip(agg_pairs[2].Answer)
    /\ ~agg_pairs[2].AnswerCorrectness

-----------------------------------------------------------------------------
(* Claims about the session as a whole *)

NoDuplicates(seq) == \A i, j \in 1..Len(seq) : seq[i] = seq[j] => i = j

\* C31: through submissions, logouts and reloads, the Judgement list, in the
\* session and on disk, has at most one Judgement per original question text,
\* and no list of the Unsuitable record, in the session and on disk, has a
\* question twice.
C31_NoDuplicateResolutions ==
    /\ NoDuplicates([ i \in 1..Len(st.kept_pairs) |-> st.kept_pairs[i].Question ])
    /\ NoDuplicates([ i \in 1..Len(files.profile) |-> files.profile[i].Question ])
    /\ \A c \in DOMAIN st.unsuitable_questions :
          NoDuplicates(st.unsuitable_questions[c])
    /\ \A c \in DOMAIN files.unsuitable : NoDuplicates(files.unsuitable[c])

C31_Witness ==
    /\ last.kind = "login"
    /\ Len(files.profile) = 0
    /\ \E c \in DOMAIN files.unsuitable : Len(files.unsuitable[c]) = 1
    /\ st.unsuitable_questions = files.unsuitable

CursorInBounds == st.index_input >= 0 /\ st.index_input <= Len(st.data)

\* C32: the cursor is always between 0 and the length of the queue; while
\* one reviewer stays logged in it never decreases; and an item on screen is
\* unresolved: its question is not in the completed-question set and its
\* (context, question) is not in the Unsuitable record.
C32_CursorIsBoundedAndMonotone ==
    [][ /\ CursorInBounds /\ CursorInBounds'
        /\ ItemShown' => ~Resolved(st', st'.index_input)
        /\ (st.user # "None" /\ st'.user = st.user)
              => st'.index_input >= st.index_input ]_vars

C32_Witness ==
    /\ ItemShown
    /\ last.kind = "submit_qa" /\ ~last.suitable
    /\ st.index_input = 1
    /\ Resolved(st, 0)
    /\ ~Resolved(st, 1)

IsPrefix(a, b) == Len(a) <= Len(b) /\ SubSeq(b, 1, Len(a)) = a

RECURSIVE SumLen(_, _)
SumLen(d, keys) ==
    IF keys = {} THEN 0
    ELSE LET k == CHOOSE x \in keys : TRUE
         IN Len(d[k]) + SumLen(d, keys \ {k})

\* the submissions accepted so far: Judgements and Unsuitable entries
NumResolutions(s) ==
    Len(s.kept_pairs) + SumLen(s.unsuitable_questions, DOMAIN s.unsuitable_questions)

\* marking the item on screen unsuitable is accepted and moves the cursor
UnsuitableIsAccepted ==
    \E c \in SessionCandidates(get_current_data(st)), n \in NoteInputs, d \in Durations :
        /\ ~c.suitable
        /\ LET w == main(submit_qa(World, c, n.question, n.answer, d, Len(ExportOrder)))
           IN w.st.errors = NoErrors /\ w.st.index_input > st.index_input

\* C34: every accepted submission, Judgement or unsuitable, leaves the cursor
\* strictly further down the queue after the script has run again; for every
\* item on screen the unsuitable submission is accepted; the accepted
\* submissions never outnumber the cursor position, which the queue length
\* bounds; and a reviewer who does not leave an item on screen for ever
\* without an accepted submission reaches end-of-queue with the completion
\* marker written.
C34_ReviewTerminates ==
    /\ [][ (SubmitStep /\ st'.errors = NoErrors)
              => (st'.index_input > st.index_input /\ QaView') ]_vars
    /\ [](ItemShown => UnsuitableIsAccepted)
    /\ [](QaView => (NumResolutions(st) <= st.index_input
                       /\ st.index_input <= Len(st.data)))
    /\ ([]<>(~ItemShown) \/ []<><<SubmitStep /\ st'.errors = NoErrors>>_vars)
          => <>(Completed /\ "complete" \in files.exists)

C34_Witness ==
    /\ Completed
    /\ "complete" \in files.exists
    /\ NumResolutions(st) = Len(st.data)
    /\ Len(st.kept_pairs) = 1

\* a file that only a submission writes has changed
ArtifactsWritten ==
    \/ files'.profile # files.profile
    \/ files'.squad # files.squad
    \/ files'.unnatural # files.unnatural
    \/ files'.incorrect # files.incorrect
    \/ files'.unsuitable # files.unsuitable
    \/ files'.notes # files.notes

\* C35: the artifacts are written, and the completion marker is first
\* written, only with the queue on screen: password given or insecure mode,
\* a reviewer set, calibration finished and the profile file there. The queue
\* is entered only from the calibration walkthrough by its last click, the
\* walkthrough only from the login view by a login, and a logout leaves no
\* reviewer and no finished calibration, so the login view is next.
C35_PhasesAreGated ==
    [][ /\ ArtifactsWritten => QaView
        /\ ("complete" \in files'.exists /\ "complete" \notin files.exists) => QaView'
        /\ QaView' =>
              /\ insecure \/ st'.password_given
              /\ st'.user # "None" /\ st'.examples_finished
              /\ "profile.json" \in files'.exists
        /\ (~QaView /\ QaView') =>
              /\ CalibrationView /\ last'.kind = "next_example"
              /\ st.example_index = NumExamples - 1
        /\ (~CalibrationView /\ CalibrationView') =>
              (LoginView /\ last'.kind = "login")
        /\ (last'.kind = "logout" /\ last.kind # "logout") =>
              /\ st'.user = "None" /\ ~st'.examples_finished
              /\ LoginView' ]_vars

C35_Witness ==
    /\ CalibrationView
    /\ last.kind = "login"
    /\ DOMAIN files.unsuitable # {}
    /\ st.index_input = 0
    /\ "complete" \notin files.exists

====
